---------------------------- MODULE Spec2Model ----------------------------
(***************************************************************************)
(* A model of the federated wallet (fediwallet/src/lib.rs): the consensus  *)
(* aggregator, the own-proposal generator, the balance, the consensus      *)
(* height coin selector and the peg-out construction.                      *)
(***************************************************************************)
EXTENDS Integers, Sequences, FiniteSets, TLC

(***************************************************************************)
(* Bounds of the model.                                                    *)
(***************************************************************************)
\* Largest block height a peer proposes or a transaction confirms at.
MaxHeight == 2
\* Largest number of proposals in one round.
MaxBatch == 3
\* Largest magnitude (sat/vb) of a normal fee rate.
MaxFee == 2
\* Largest network height the blockchain client reports.
MaxNetHeight == 3
\* Largest finality delay a wallet is constructed with.
MaxDelay == 2
\* Largest number of transactions (each with one unspent output) in the wallet.
MaxTx == 2
\* Largest amount (sats) of a peg-out.
MaxAmount == 2

Heights == 0..MaxHeight

(***************************************************************************)
(* f32 values, by IEEE class.  A normal value carries its value in sat/vb, *)
(* a subnormal or an infinity its sign.                                    *)
(***************************************************************************)
NaN == [cls |-> "nan", v |-> 0]
PosInf == [cls |-> "inf", v |-> 1]
NegInf == [cls |-> "inf", v |-> -1]
Zero == [cls |-> "zero", v |-> 0]
Subnormal == [cls |-> "subnormal", v |-> 1]
Normal(n) == [cls |-> "normal", v |-> n]

NormalValues == {Normal(n) : n \in (-MaxFee..MaxFee) \ {0}}
F32 == {NaN, PosInf, NegInf, Zero, Subnormal} \cup NormalValues

\* f32::is_normal: neither zero, infinite, subnormal nor NaN; the sign is
\* not looked at.
is_normal(f) == f.cls = "normal"

\* The position of a non-NaN value on the real line, as an integer.
Magnitude(f) ==
    CASE f.cls = "normal" -> 2 * f.v
      [] f.cls = "subnormal" -> f.v
      [] f.cls = "inf" -> f.v * (2 * MaxFee + 2)
      [] OTHER -> 0

\* f32::partial_cmp: no ordering when either side is NaN.
partial_cmp(a, b) ==
    IF a.cls = "nan" \/ b.cls = "nan" THEN "None"
    ELSE IF Magnitude(a) < Magnitude(b) THEN "Less"
    ELSE IF Magnitude(a) > Magnitude(b) THEN "Greater"
    ELSE "Equal"

\* FeeRate::default(): the minimum relay fee, 1 sat/vb.
FeeRateDefault == Normal(1)

\* FeeRate::from_sat_per_vb and FeeRate::as_sat_vb wrap and unwrap the f32.
from_sat_per_vb(f) == f
as_sat_vb(r) == r

(***************************************************************************)
(* What a call returns: a value, an error, or a panic.                     *)
(***************************************************************************)
Unit == [kind |-> "Unit"]
Panic == [kind |-> "Panic"]
Ok(x) == [kind |-> "Ok", value |-> x]
Err(e) == [kind |-> "Err", error |-> e]

(***************************************************************************)
(* Sequences.                                                              *)
(***************************************************************************)
RECURSIVE FilterSeq(_, _)
FilterSeq(s, keep) ==
    IF s = <<>> THEN <<>>
    ELSE IF Head(s) \in keep THEN <<Head(s)>> \o FilterSeq(Tail(s), keep)
    ELSE FilterSeq(Tail(s), keep)

\* Vec<u32>::sort: a stable ascending sort.
RECURSIVE InsertU32(_, _)
InsertU32(sorted, x) ==
    IF sorted = <<>> THEN <<x>>
    ELSE IF x < Head(sorted) THEN <<x>> \o sorted
    ELSE <<Head(sorted)>> \o InsertU32(Tail(sorted), x)

RECURSIVE sort(_)
sort(s) ==
    IF s = <<>> THEN <<>>
    ELSE InsertU32(sort(SubSeq(s, 1, Len(s) - 1)), s[Len(s)])

\* sort_by(|a, b| a.partial_cmp(b).expect(..)): a stable ascending sort that
\* panics when a comparison has no answer.
RECURSIVE InsertF32(_, _)
InsertF32(sorted, x) ==
    IF sorted = <<>> THEN <<x>>
    ELSE IF partial_cmp(x, Head(sorted)) = "Less" THEN <<x>> \o sorted
    ELSE <<Head(sorted)>> \o InsertF32(Tail(sorted), x)

RECURSIVE SortF32(_)
SortF32(s) ==
    IF s = <<>> THEN <<>>
    ELSE InsertF32(SortF32(SubSeq(s, 1, Len(s) - 1)), s[Len(s)])

sort_by_partial_cmp(s) ==
    IF Len(s) >= 2 /\ \E i \in 1..Len(s) : s[i].cls = "nan" THEN Panic
    ELSE Ok(SortF32(s))

(***************************************************************************)
(* The state.                                                              *)
(***************************************************************************)
VARIABLES
    consensus_height,   \* Wallet.consensus_height
    finalty_delay,      \* Wallet.finalty_delay
    last_proposal,      \* Wallet.last_proposal
    consensus_feerate,  \* Wallet.consensus_feerate
    transactions,       \* the wallet database: list_transactions(false)
    utxos,              \* the wallet database: list_unspent()
    proposals,          \* proposals collected for the round in progress
    highest_proposed,   \* the highest block height this wallet has proposed
    lastCall,           \* the operation that ran last
    args,               \* its arguments
    ret,                \* what it returned
    build,              \* what the transaction builder did in that call
    peer_build,         \* the same build by a second wallet in the same state
    borrowed,           \* the call that holds the wallet by shared reference
    state_machines,     \* the gateway client's database: the state machines
    operation_log,      \* the gateway client's database: the operation log
    pay_call,           \* the gateway_pay_bolt11_invoice call in progress
    returned,           \* the operation ids gateway_pay_bolt11_invoice returned
    streams             \* the update streams of gateway_subscribe_ln_pay

vars == <<consensus_height, finalty_delay, last_proposal, consensus_feerate,
          transactions, utxos, proposals, highest_proposed, lastCall, args,
          ret, build, peer_build, borrowed, state_machines, operation_log,
          pay_call, returned, streams>>

\* The gateway client's part of the state.
gateway == <<state_machines, operation_log, pay_call, returned, streams>>

\* The wallet database; nothing after the sync in Wallet::new writes it.
database == <<transactions, utxos>>

None == [some |-> FALSE]
Some(x) == [some |-> TRUE, value |-> x]

WalletConsensus(h, f) == [block_height |-> h, fee_rate |-> f]

(***************************************************************************)
(* The consensus aggregator.                                               *)
(***************************************************************************)
\* The fee_rate.is_normal() filter of process_fee_proposals.
fee_filter(fee_proposals) ==
    FilterSeq(fee_proposals, {f \in F32 : is_normal(f)})

\* process_fee_proposals: the fee rate it leaves in self.consensus_feerate, or
\* a panic.
process_fee_proposals(feerate, fee_proposals) ==
    IF fee_proposals = <<>> THEN Panic
    ELSE LET filtered == fee_filter(fee_proposals) IN
         IF filtered = <<>> THEN Ok(feerate)
         ELSE LET sorted == sort_by_partial_cmp(filtered) IN
              IF sorted = Panic THEN Panic
              ELSE LET median_proposal ==
                           sorted.value[(Len(sorted.value) \div 2) + 1]
                   IN Ok(from_sat_per_vb(median_proposal))

\* process_block_height_proposals taking the highest proposal.
process_block_height_proposals_highest(height, height_proposals) ==
    IF height_proposals = <<>> THEN Panic
    ELSE LET sorted == sort(height_proposals)
             median_proposal == sorted[Len(sorted)]
         IN IF median_proposal >= height THEN Ok(median_proposal) ELSE Ok(height)

\* process_block_height_proposals without the rewind check.
process_block_height_proposals_unguarded(height, height_proposals) ==
    IF height_proposals = <<>> THEN Panic
    ELSE LET sorted == sort(height_proposals)
         IN Ok(sorted[(Len(sorted) \div 2) + 1])

\* process_block_height_proposals taking the lower median of an even batch.
process_block_height_proposals_lower(height, height_proposals) ==
    IF height_proposals = <<>> THEN Panic
    ELSE LET sorted == sort(height_proposals)
             median_proposal == sorted[((Len(sorted) - 1) \div 2) + 1]
         IN IF median_proposal >= height THEN Ok(median_proposal) ELSE Ok(height)

\* process_block_height_proposals: the height it leaves in
\* self.consensus_height, or a panic.
process_block_height_proposals(height, height_proposals) ==
    IF height_proposals = <<>> THEN Panic
    ELSE LET sorted == sort(height_proposals)
             median_proposal == sorted[(Len(sorted) \div 2) + 1]
         IN IF median_proposal >= height THEN Ok(median_proposal) ELSE Ok(height)

\* A method that takes the wallet by &mut self runs however the wallet is
\* borrowed.
mut_self_aliased == TRUE

\* &mut self: a method that takes the wallet by exclusive reference runs only
\* while no call holds it by shared reference.
mut_self == borrowed = None

\* process_consensus_proposals returning before the fee rates when the height
\* median is rejected as a rewind.
process_consensus_proposals_rewind_returns(batch) ==
    LET height_proposals == [i \in 1..Len(batch) |-> batch[i].block_height]
        fee_proposals == [i \in 1..Len(batch) |-> batch[i].fee_rate]
        height == process_block_height_proposals(consensus_height, height_proposals)
        feerate == process_fee_proposals(consensus_feerate, fee_proposals)
        sorted == sort(height_proposals)
    IN /\ mut_self
       /\ lastCall' = "process_consensus_proposals"
       /\ args' = batch
       /\ proposals' = <<>>
       /\ IF batch = <<>>
          THEN /\ ret' = Unit
               /\ UNCHANGED <<consensus_height, consensus_feerate>>
          ELSE IF sorted[(Len(sorted) \div 2) + 1] < consensus_height
          THEN /\ ret' = Unit
               /\ UNCHANGED <<consensus_height, consensus_feerate>>
          ELSE IF feerate = Panic
          THEN /\ ret' = Panic
               /\ consensus_height' = height.value
               /\ UNCHANGED consensus_feerate
          ELSE /\ ret' = Unit
               /\ consensus_height' = height.value
               /\ consensus_feerate' = feerate.value
       /\ build' = None
       /\ peer_build' = None
       /\ UNCHANGED <<finalty_delay, last_proposal, database, highest_proposed>>
       /\ UNCHANGED <<borrowed, gateway>>

\* process_consensus_proposals without the return on an empty batch.
process_consensus_proposals_unguarded(batch) ==
    LET height_proposals == [i \in 1..Len(batch) |-> batch[i].block_height]
        fee_proposals == [i \in 1..Len(batch) |-> batch[i].fee_rate]
        height == process_block_height_proposals(consensus_height, height_proposals)
        feerate == process_fee_proposals(consensus_feerate, fee_proposals)
    IN /\ mut_self
       /\ lastCall' = "process_consensus_proposals"
       /\ args' = batch
       /\ proposals' = <<>>
       /\ IF height = Panic
          THEN /\ ret' = Panic
               /\ UNCHANGED <<consensus_height, consensus_feerate>>
          ELSE IF feerate = Panic
          THEN /\ ret' = Panic
               /\ consensus_height' = height.value
               /\ UNCHANGED consensus_feerate
          ELSE /\ ret' = Unit
               /\ consensus_height' = height.value
               /\ consensus_feerate' = feerate.value
       /\ build' = None
       /\ peer_build' = None
       /\ UNCHANGED <<finalty_delay, last_proposal, database, highest_proposed>>
       /\ UNCHANGED <<borrowed, gateway>>

\* process_consensus_proposals(batch): the empty batch returns at once; else
\* the heights are processed, then the fees.
process_consensus_proposals(batch) ==
    LET height_proposals == [i \in 1..Len(batch) |-> batch[i].block_height]
        fee_proposals == [i \in 1..Len(batch) |-> batch[i].fee_rate]
        height == process_block_height_proposals(consensus_height, height_proposals)
        feerate == process_fee_proposals(consensus_feerate, fee_proposals)
    IN /\ mut_self
       /\ lastCall' = "process_consensus_proposals"
       /\ args' = batch
       /\ proposals' = <<>>
       /\ IF batch = <<>>
          THEN /\ ret' = Unit
               /\ UNCHANGED <<consensus_height, consensus_feerate>>
          ELSE IF height = Panic
          THEN /\ ret' = Panic
               /\ UNCHANGED <<consensus_height, consensus_feerate>>
          ELSE IF feerate = Panic
          THEN /\ ret' = Panic
               /\ consensus_height' = height.value
               /\ UNCHANGED consensus_feerate
          ELSE /\ ret' = Unit
               /\ consensus_height' = height.value
               /\ consensus_feerate' = feerate.value
       /\ build' = None
       /\ peer_build' = None
       /\ UNCHANGED <<finalty_delay, last_proposal, database, highest_proposed>>
       /\ UNCHANGED <<borrowed, gateway>>

\* A peer's proposal arrives on the consensus channel.
SubmitProposal(wc) ==
    /\ Len(proposals) < MaxBatch
    /\ proposals' = Append(proposals, wc)
    /\ lastCall' = "submit"
    /\ args' = wc
    /\ ret' = Unit
    /\ build' = None
    /\ peer_build' = None
    /\ UNCHANGED <<consensus_height, finalty_delay, last_proposal, consensus_feerate,
                   database, highest_proposed>>
    /\ UNCHANGED <<borrowed, gateway>>

\* The consensus driver hands the round's batch to the wallet.
ProcessRound == process_consensus_proposals(proposals)

\* The proposals of a round of Spec: every height, with a fee rate that is
\* discarded, the lowest one and the highest one.
PeerProposals ==
    {WalletConsensus(h, f) : h \in Heights, f \in {NaN, Normal(1), Normal(MaxFee)}}

\* Wallet::new: the fields of a new wallet, whatever its database holds; no
\* call is in progress.
new ==
    /\ consensus_height = 0
    /\ last_proposal = 0
    /\ consensus_feerate = FeeRateDefault
    /\ proposals = <<>>
    /\ highest_proposed = 0
    /\ lastCall = "new"
    /\ args = <<>>
    /\ ret = Unit
    /\ build = None
    /\ peer_build = None
    /\ borrowed = None

\* The gateway client before any payment: an empty database, no call and no
\* stream.
client_new ==
    /\ state_machines = {}
    /\ operation_log = {}
    /\ pay_call = None
    /\ returned = {}
    /\ streams = <<>>

\* A wallet with an empty database, in rounds of up to MaxBatch proposals.
Init ==
    /\ new
    /\ client_new
    /\ finalty_delay = MaxDelay
    /\ transactions = <<>>
    /\ utxos = <<>>

Next ==
    \/ \E wc \in PeerProposals : SubmitProposal(wc)
    \/ ProcessRound

Spec == Init /\ [][Next]_vars

\* The fee rates peers propose in a round of SpecFee: every class of f32, and
\* a negative rate.
PeerFeeRates ==
    {NaN, PosInf, Zero, Subnormal, Normal(-1)} \cup {Normal(n) : n \in 1..MaxFee}

FeeProposals == {WalletConsensus(0, f) : f \in PeerFeeRates}

NextFee ==
    \/ \E wc \in FeeProposals : SubmitProposal(wc)
    \/ ProcessRound

\* The rounds of Spec, over fee rates of every class and one height.
SpecFee == Init /\ [][NextFee]_vars

(***************************************************************************)
(* The wallet's own proposal.                                              *)
(***************************************************************************)
\* u32::abs_diff in place of u32::saturating_sub.
abs_diff(a, b) == IF a >= b THEN a - b ELSE b - a

\* u32::saturating_sub.
saturating_sub(a, b) == IF a >= b THEN a - b ELSE 0

\* The blockchain client's answers: an error, or a value.
HeightAnswers == {Err("BdkError")} \cup {Ok(h) : h \in 0..MaxNetHeight}
FeeAnswers == {Err("BdkError")} \cup {Ok(Normal(n)) : n \in 1..MaxFee}

\* consensus_proposal(&self), given what get_height() and
\* estimate_fee(CONFIRMATION_TARGET) answer.  It takes the wallet by shared
\* reference: no field of the wallet is written.
consensus_proposal(get_height, estimate_fee) ==
    LET network_height == get_height.value
        target_height == saturating_sub(network_height, finalty_delay)
        proposed_height ==
            IF target_height >= last_proposal THEN target_height
            ELSE last_proposal
        result ==
            IF get_height.kind = "Err" THEN get_height
            ELSE IF estimate_fee.kind = "Err" THEN estimate_fee
            ELSE Ok(WalletConsensus(proposed_height, as_sat_vb(estimate_fee.value)))
    IN /\ lastCall' = "consensus_proposal"
       /\ args' = <<get_height, estimate_fee>>
       /\ ret' = result
       /\ highest_proposed' =
              IF result.kind = "Ok" /\ result.value.block_height > highest_proposed
              THEN result.value.block_height
              ELSE highest_proposed
       /\ build' = None
       /\ peer_build' = None
       /\ UNCHANGED <<consensus_height, finalty_delay, last_proposal,
                      consensus_feerate, database, proposals>>
       /\ UNCHANGED <<borrowed, gateway>>

\* The proposals of honest peers in the rounds that run between the wallet's
\* own proposals.
HonestProposals == {WalletConsensus(h, Normal(1)) : h \in Heights}

\* A wallet of any finality delay, with an empty database.
InitProposal ==
    /\ new
    /\ client_new
    /\ finalty_delay \in 0..MaxDelay
    /\ transactions = <<>>
    /\ utxos = <<>>

NextProposal ==
    \/ \E h \in HeightAnswers, f \in FeeAnswers : consensus_proposal(h, f)
    \/ \E wc \in HonestProposals : SubmitProposal(wc)
    \/ ProcessRound

SpecProposal == InitProposal /\ [][NextProposal]_vars

(***************************************************************************)
(* The wallet database, the balance and the peg-out.                       *)
(***************************************************************************)
\* A TransactionDetails of list_transactions: height is None while the
\* transaction is unconfirmed.
TransactionDetails(txid, height) == [txid |-> txid, height |-> height]

\* A UTXO of list_unspent.
UTXO(txid, value) ==
    [outpoint |-> [txid |-> txid, vout |-> 0], txout |-> [value |-> value]]

\* The values (sats) of the wallet's outputs.
UtxoValues == {1, 3}

\* HashMap::get.
get(map, key) == IF key \in DOMAIN map THEN Some(map[key]) ELSE None

\* height_map(): the confirmed transactions of list_transactions(false), as a
\* map from txid to height.
height_map ==
    LET confirmed == {i \in 1..Len(transactions) : transactions[i].height.some}
    IN [txid \in {transactions[i].txid : i \in confirmed} |->
           LET i == CHOOSE j \in confirmed : transactions[j].txid = txid
           IN transactions[i].height.value]

RECURSIVE SumValues(_)
SumValues(list) ==
    IF list = <<>> THEN 0
    ELSE Head(list).txout.value + SumValues(Tail(list))

\* The filter closure of balance() with unwrap_or(true).
balance_filter_unknown(map, height, list) ==
    FilterSeq(list,
        {utxo \in {list[i] : i \in 1..Len(list)} :
            LET utxo_height == get(map, utxo.outpoint.txid)
            IN IF utxo_height.some THEN utxo_height.value <= height ELSE TRUE})

\* The filter closure of balance().
balance_filter(map, height, list) ==
    FilterSeq(list,
        {utxo \in {list[i] : i \in 1..Len(list)} :
            LET utxo_height == get(map, utxo.outpoint.txid)
            IN IF utxo_height.some THEN utxo_height.value <= height ELSE FALSE})

\* balance(): the sats of the unspent outputs that pass the filter.
balance_sats == SumValues(balance_filter(height_map, consensus_height, utxos))

\* balance(), given whether the database answers.
balance(db_ok) ==
    /\ lastCall' = "balance"
    /\ args' = <<db_ok>>
    /\ ret' = IF db_ok THEN Ok(balance_sats) ELSE Err("BdkError")
    /\ build' = None
    /\ peer_build' = None
    /\ UNCHANGED <<consensus_height, finalty_delay, last_proposal,
                   consensus_feerate, database, proposals, highest_proposed>>
    /\ UNCHANGED <<borrowed, gateway>>

\* The filter closure of coin_select comparing with < in place of <=.
coin_select_filter_strict(self, optional_utxos) ==
    FilterSeq(optional_utxos,
        {utxo \in {optional_utxos[i] : i \in 1..Len(optional_utxos)} :
            LET utxo_height == get(self.height_map, utxo.outpoint.txid)
            IN IF utxo_height.some
               THEN utxo_height.value < self.consensus_height
               ELSE FALSE})

\* The filter closure of ConsensusHeightCoinSelector::coin_select.
coin_select_filter(self, optional_utxos) ==
    FilterSeq(optional_utxos,
        {utxo \in {optional_utxos[i] : i \in 1..Len(optional_utxos)} :
            LET utxo_height == get(self.height_map, utxo.outpoint.txid)
            IN IF utxo_height.some
               THEN utxo_height.value <= self.consensus_height
               ELSE FALSE})

SumOf(list, S) == SumValues(FilterSeq(list, {list[i] : i \in S}))

\* BranchAndBoundCoinSelection::coin_select (bdk): the selections it may
\* return, as sets of indexes of optional_utxos.  An exact match of the
\* target is found by a search that depends on its input alone; when there is
\* none the selector draws the candidates in a random order until the target
\* is covered.
BranchAndBoundCoinSelection(optional_utxos, amount_needed, fee_amount) ==
    LET all == 1..Len(optional_utxos)
        target == amount_needed + fee_amount
        exact == {S \in SUBSET all : SumOf(optional_utxos, S) = target}
        drawn == {S \in SUBSET all :
                    /\ SumOf(optional_utxos, S) >= target
                    /\ \E last \in S : SumOf(optional_utxos, S \ {last}) < target}
    IN IF SumOf(optional_utxos, all) < target THEN {Err("InsufficientFunds")}
       ELSE IF exact # {} THEN {Ok(CHOOSE S \in exact : TRUE)}
       ELSE {Ok(S) : S \in drawn}

\* coin_select without the assert on required_utxos.
coin_select_unasserted(self, required_utxos, optional_utxos, fee_rate, amount_needed, fee_amount) ==
    LET filtered == coin_select_filter(self, optional_utxos)
    IN {[result |-> r, inner_optional |-> filtered, delegated |-> TRUE] :
           r \in BranchAndBoundCoinSelection(filtered, amount_needed, fee_amount)}

\* ConsensusHeightCoinSelector::coin_select: the outcomes, each with the
\* optional_utxos handed to the inner selector and whether it was called.
coin_select(self, required_utxos, optional_utxos, fee_rate, amount_needed, fee_amount) ==
    IF required_utxos # <<>>
    THEN {[result |-> Panic, inner_optional |-> <<>>, delegated |-> FALSE]}
    ELSE LET filtered == coin_select_filter(self, optional_utxos)
         IN {[result |-> r, inner_optional |-> filtered, delegated |-> TRUE] :
                r \in BranchAndBoundCoinSelection(filtered, amount_needed, fee_amount)}

\* Wallet::coin_selection: the selector, with the height map and the consensus
\* height of the moment.
coin_selection == [height_map |-> height_map, consensus_height |-> consensus_height]

\* The script the wallet's descriptor gives for change, and the recipient's.
ChangeScript == [script |-> "change"]
RecipientScript == [script |-> "recipient"]

\* The lexicographic order of the two scripts.
ScriptLeq(a, b) == a = b \/ a = ChangeScript

\* TxOrdering::BIP69Lexicographic (bdk): the inputs by (txid, vout).
RECURSIVE bip69_inputs(_)
bip69_inputs(outpoints) ==
    IF outpoints = {} THEN <<>>
    ELSE LET first == CHOOSE o \in outpoints :
                 \A p \in outpoints :
                     \/ o.txid < p.txid
                     \/ (o.txid = p.txid /\ o.vout <= p.vout)
         IN <<first>> \o bip69_inputs(outpoints \ {first})

\* TxOrdering::BIP69Lexicographic (bdk): the outputs by (value, script).
RECURSIVE bip69_outputs(_)
bip69_outputs(outputs) ==
    IF outputs = {} THEN <<>>
    ELSE LET first == CHOOSE o \in outputs :
                 \A p \in outputs :
                     \/ o.value < p.value
                     \/ (o.value = p.value /\ ScriptLeq(o.script_pubkey, p.script_pubkey))
         IN <<first>> \o bip69_outputs(outputs \ {first})

\* The transaction builder as create_pegout_tx sets it up: the consensus
\* height coin selector, one recipient, replace-by-fee, BIP-69 ordering, and no
\* fee rate.
tx_builder(recipient, amt) ==
    [coin_selection |-> coin_selection,
     recipients |-> <<[script_pubkey |-> recipient, value |-> amt]>>,
     rbf |-> TRUE,
     ordering |-> "BIP69Lexicographic",
     fee_policy |-> None]

\* TxBuilder::finish (bdk): the outcomes of the build.  The fee rate is the
\* builder's fee policy, FeeRate::default() when none was set; the fee is that
\* of a transaction of one virtual byte; no input is required and every unspent
\* output of the wallet is optional; meta.sent is the library's figure, the
\* amount sent to the recipients or the sum of the wallet's inputs spent.
finish(builder) ==
    LET fee_rate == IF builder.fee_policy.some THEN builder.fee_policy.value
                    ELSE FeeRateDefault
        fee_amount == fee_rate.v
        amount_needed == builder.recipients[1].value
        selections == coin_select(builder.coin_selection, <<>>, utxos,
                                  fee_rate, amount_needed, fee_amount)
    IN UNION {
        IF sel.result.kind # "Ok"
        THEN {[result |-> sel.result, fee_rate |-> fee_rate,
               inner_optional |-> sel.inner_optional]}
        ELSE LET selected == sel.result.value
                 selected_amount == SumOf(sel.inner_optional, selected)
                 change == selected_amount - amount_needed - fee_amount
                 outputs ==
                     {builder.recipients[1]} \cup
                     (IF change > 0
                      THEN {[script_pubkey |-> ChangeScript, value |-> change]}
                      ELSE {})
                 tx == [input |-> bip69_inputs(
                                     {sel.inner_optional[i].outpoint : i \in selected}),
                        output |-> bip69_outputs(outputs),
                        rbf |-> builder.rbf]
             IN {[result |-> Ok([tx |-> tx, sent |-> sent]),
                  fee_rate |-> fee_rate,
                  inner_optional |-> sel.inner_optional] :
                    sent \in {amount_needed, selected_amount}}
        : sel \in selections}

\* create_pegout_tx without the assert_eq on meta.sent.
create_pegout_tx_unchecked(recipient, amt) ==
    /\ lastCall' = "create_pegout_tx"
    /\ args' = <<recipient, amt>>
    /\ peer_build' = None
    /\ \/ /\ ret' = Err("BdkError")
          /\ build' = None
       \/ \E built \in finish(tx_builder(recipient, amt)) :
          /\ build' = Some(built)
          /\ \E sign_ok \in BOOLEAN :
             ret' = IF built.result.kind # "Ok" THEN built.result
                    ELSE IF ~sign_ok THEN Err("SignError")
                    ELSE Ok(built.result.value.tx)
    /\ UNCHANGED <<consensus_height, finalty_delay, last_proposal,
                   consensus_feerate, database, proposals, highest_proposed>>
    /\ UNCHANGED <<borrowed, gateway>>

\* create_pegout_tx(recipient, amt).  The database may fail while the height
\* map is read; the build may fail; a meta.sent other than amt panics; the
\* signer may refuse.
create_pegout_tx(recipient, amt) ==
    /\ lastCall' = "create_pegout_tx"
    /\ args' = <<recipient, amt>>
    /\ peer_build' = None
    /\ \/ /\ ret' = Err("BdkError")
          /\ build' = None
       \/ \E built \in finish(tx_builder(recipient, amt)) :
          /\ build' = Some(built)
          /\ \E sign_ok \in BOOLEAN :
             ret' = IF built.result.kind # "Ok" THEN built.result
                    ELSE IF built.result.value.sent # amt THEN Panic
                    ELSE IF ~sign_ok THEN Err("SignError")
                    ELSE Ok(built.result.value.tx)
    /\ UNCHANGED <<consensus_height, finalty_delay, last_proposal,
                   consensus_feerate, database, proposals, highest_proposed>>
    /\ UNCHANGED <<borrowed, gateway>>

\* A second wallet with the same descriptor, database, consensus height and
\* consensus fee rate builds the same peg-out.
peer_create_pegout_tx ==
    /\ lastCall = "create_pegout_tx"
    /\ build # None
    /\ peer_build = None
    /\ \E built \in finish(tx_builder(args[1], args[2])) :
           peer_build' = Some(IF built.result.kind = "Ok"
                              THEN Ok(built.result.value.tx)
                              ELSE built.result)
    /\ UNCHANGED <<consensus_height, finalty_delay, last_proposal,
                   consensus_feerate, database, proposals, highest_proposed,
                   lastCall, args, ret, build>>
    /\ UNCHANGED <<borrowed, gateway>>

\* The databases a sync may leave: up to MaxTx transactions, each confirmed at
\* some height or unconfirmed, each with one unspent output.
HeightOptions == {None} \cup {Some(h) : h \in Heights}

\* A round of one proposal, of the lowest or the highest fee rate.
QuorumProposals == {WalletConsensus(h, Normal(n)) : h \in Heights, n \in {1, MaxFee}}

InitWallet ==
    /\ new
    /\ client_new
    /\ finalty_delay = MaxDelay
    /\ \E n \in 0..MaxTx :
       \E heights \in [1..n -> HeightOptions], values \in [1..n -> UtxoValues] :
           /\ transactions = [i \in 1..n |-> TransactionDetails(i, heights[i])]
           /\ utxos = [i \in 1..n |-> UTXO(i, values[i])]

NextWallet ==
    \/ \E wc \in QuorumProposals : process_consensus_proposals(<<wc>>)
    \/ \E db_ok \in BOOLEAN : balance(db_ok)
    \/ \E amt \in 1..MaxAmount : create_pegout_tx(RecipientScript, amt)

SpecWallet == InitWallet /\ [][NextWallet]_vars

NextPeers ==
    \/ \E wc \in QuorumProposals : process_consensus_proposals(<<wc>>)
    \/ \E amt \in 1..MaxAmount : create_pegout_tx(RecipientScript, amt)
    \/ peer_create_pegout_tx

\* The wallet and a second wallet that repeats its builds.
SpecPeers == InitWallet /\ [][NextPeers]_vars

\* A transaction builder calls coin_select of the wallet's selector with
\* required_utxos of its choice, the wallet's unspent outputs as optional_utxos
\* and the default fee rate.
call_coin_select(required_utxos, amount_needed) ==
    /\ lastCall' = "coin_select"
    /\ args' = <<required_utxos, amount_needed>>
    /\ peer_build' = None
    /\ \E selection \in coin_select(coin_selection, required_utxos, utxos,
                                     FeeRateDefault, amount_needed,
                                     FeeRateDefault.v) :
           /\ build' = Some(selection)
           /\ ret' = selection.result
    /\ UNCHANGED <<consensus_height, finalty_delay, last_proposal,
                   consensus_feerate, database, proposals, highest_proposed>>
    /\ UNCHANGED <<borrowed, gateway>>

\* The required_utxos of a call: none, or one unspent output of the wallet.
RequiredUtxos == {<<>>} \cup {<<utxos[i]>> : i \in 1..Len(utxos)}

NextSelector ==
    \/ \E wc \in QuorumProposals : process_consensus_proposals(<<wc>>)
    \/ \E required_utxos \in RequiredUtxos, amount_needed \in 1..MaxAmount :
           call_coin_select(required_utxos, amount_needed)

\* The wallet's coin selector, called with and without required outputs.
SpecSelector == InitWallet /\ [][NextSelector]_vars

(***************************************************************************)
(* The gateway client: starting a payment.                                 *)
(***************************************************************************)
\* The contracts gateways are asked to pay.
MaxContracts == 3

\* The attempts gateway_pay_bolt11_invoice allows autocommit: Some(100).
MaxAttempts == 100

\* The wallet's part of the state, which the gateway client leaves alone.
wallet == <<consensus_height, finalty_delay, last_proposal, consensus_feerate,
            transactions, utxos, proposals, highest_proposed, build, peer_build,
            borrowed>>

\* A ContractId is a hash; into_inner gives the hash back.
ContractId(h) == [hash |-> h]
ContractIds == {ContractId(h) : h \in 1..MaxContracts}
into_inner(contract_id) == contract_id.hash

OperationId(bytes) == [id |-> bytes]

\* The value of a call that has not returned.
Pending == [kind |-> "Pending"]

\* GatewayMeta::Pay, and the entry of the operation log that carries it.
GatewayMetaPay == [variant |-> "Pay"]
OperationLogEntry(operation_id, kind, meta) ==
    [operation_id |-> operation_id, operation_type |-> kind, meta |-> meta,
     outcome |-> None]

\* GatewayPayStates::PayInvoice(GatewayPayInvoice { contract_id }).
PayInvoice(contract_id) == [variant |-> "PayInvoice", contract_id |-> contract_id]

\* GatewayClientStateMachines::Pay(GatewayPayStateMachine { common, state }).
GatewayPayStateMachine(operation_id, state) ==
    [machine |-> "Pay",
     common |-> [operation_id |-> operation_id],
     state |-> state]

\* An operation id that changes with the attempt of the transaction.
pay_operation_id_per_attempt(contract_id) ==
    OperationId(into_inner(contract_id) + pay_call.value.attempt - 1)

\* The operation id of a payment: OperationId(contract_id.into_inner()).
pay_operation_id(contract_id) == OperationId(into_inner(contract_id))

\* A database transaction that has written nothing.
EmptyTx == [state_machines |-> {}, operation_log |-> {}]

\* Database::autocommit starts an attempt: a new transaction for the closure.
autocommit_attempt(contract_id, attempt) ==
    Some([contract_id |-> contract_id,
          attempt |-> attempt,
          pc |-> "add_state_machines",
          operation_id |-> None,
          dbtx |-> EmptyTx])

\* gateway_pay_bolt11_invoice(contract_id) is called: autocommit runs the
\* closure in a first transaction.
gateway_pay_bolt11_invoice(contract_id) ==
    /\ pay_call = None
    /\ pay_call' = autocommit_attempt(contract_id, 1)
    /\ lastCall' = "gateway_pay_bolt11_invoice"
    /\ args' = contract_id
    /\ ret' = Pending
    /\ UNCHANGED <<wallet, state_machines, operation_log, returned, streams>>

\* The closure computes the operation id and adds the state machine
\* PayInvoice { contract_id } to the transaction; add_state_machines may fail,
\* and the ? makes the closure, autocommit and the call return the error.
pay_add_state_machines ==
    /\ pay_call # None
    /\ pay_call.value.pc = "add_state_machines"
    /\ LET call == pay_call.value
           operation_id == pay_operation_id(call.contract_id)
           state_machine ==
               GatewayPayStateMachine(operation_id, PayInvoice(call.contract_id))
       IN \E added \in BOOLEAN :
          IF added
          THEN /\ pay_call' = Some([call EXCEPT
                       !.pc = "add_operation_log_entry",
                       !.operation_id = Some(operation_id),
                       !.dbtx.state_machines = @ \cup {state_machine}])
               /\ UNCHANGED ret
          ELSE /\ pay_call' = None
               /\ ret' = Err("ClosureError")
    /\ UNCHANGED <<wallet, state_machines, operation_log, returned, streams,
                   lastCall, args>>

\* The closure writing the entry of the operation log to the database at once,
\* outside the transaction.
pay_add_operation_log_entry_direct ==
    /\ pay_call # None
    /\ pay_call.value.pc = "add_operation_log_entry"
    /\ LET call == pay_call.value
       IN /\ pay_call' = Some([call EXCEPT !.pc = "commit"])
          /\ operation_log' = operation_log \cup
                 {OperationLogEntry(call.operation_id.value, "ln", GatewayMetaPay)}
    /\ UNCHANGED <<wallet, state_machines, returned, streams, lastCall, args, ret>>

\* The closure adds the entry of the operation log to the same transaction and
\* returns Ok(operation_id).
pay_add_operation_log_entry ==
    /\ pay_call # None
    /\ pay_call.value.pc = "add_operation_log_entry"
    /\ LET call == pay_call.value
       IN pay_call' = Some([call EXCEPT
              !.pc = "commit",
              !.dbtx.operation_log = @ \cup
                  {OperationLogEntry(call.operation_id.value, "ln", GatewayMetaPay)}])
    /\ UNCHANGED <<wallet, state_machines, operation_log, returned, streams,
                   lastCall, args, ret>>

\* autocommit commits the transaction of the closure.  A commit writes the
\* whole transaction; a commit that fails writes nothing, and the closure runs
\* again in a new transaction unless this was the last attempt allowed, when
\* the call returns "Commit to DB failed".
pay_commit(committed) ==
    /\ pay_call # None
    /\ pay_call.value.pc = "commit"
    /\ LET call == pay_call.value
       IN IF committed
          THEN /\ state_machines' = state_machines \cup call.dbtx.state_machines
               /\ operation_log' = operation_log \cup call.dbtx.operation_log
               /\ returned' = returned \cup
                      {[contract_id |-> call.contract_id,
                        operation_id |-> call.operation_id.value,
                        repeated |-> \E r \in returned :
                                        r.contract_id = call.contract_id]}
               /\ ret' = Ok(call.operation_id.value)
               /\ pay_call' = None
          ELSE /\ UNCHANGED <<state_machines, operation_log, returned>>
               /\ IF call.attempt >= MaxAttempts
                  THEN /\ ret' = Err("Commit to DB failed")
                       /\ pay_call' = None
                  ELSE /\ UNCHANGED ret
                       /\ pay_call' = autocommit_attempt(call.contract_id,
                                                         call.attempt + 1)
    /\ UNCHANGED <<wallet, streams, lastCall, args>>

\* The process restarts: the calls and streams in progress are gone, the
\* database stays.
restart ==
    /\ pay_call' = None
    /\ streams' = <<>>
    /\ lastCall' = "restart"
    /\ args' = <<>>
    /\ ret' = Unit
    /\ UNCHANGED <<wallet, state_machines, operation_log, returned>>

NextPay ==
    \/ \E contract_id \in ContractIds : gateway_pay_bolt11_invoice(contract_id)
    \/ pay_add_state_machines
    \/ pay_add_operation_log_entry
    \/ \E committed \in BOOLEAN : pay_commit(committed)
    \/ restart

\* The gateway client starting payments, over a database that may refuse any
\* commit.
SpecPay == Init /\ [][NextPay]_vars

(***************************************************************************)
(* The gateway client: the pay state machines and the update streams.      *)
(***************************************************************************)
\* The update streams open at one time.
MaxStreams == 1

\* The payments whose update streams are followed.
MaxPayments == 2

\* The preimages the Lightning node may return.
Preimages == {"p", "q"}

\* The terminal variants of GatewayPayStates: Preimage(outpoint, preimage),
\* Canceled(cancel_outpoint, contract_id), OfferDoesNotExist(contract_id) and
\* Failed.
PayPreimage(outpoint, preimage) ==
    [variant |-> "Preimage", outpoint |-> outpoint, preimage |-> preimage]
PayCanceled(cancel_outpoint, contract_id) ==
    [variant |-> "Canceled", cancel_outpoint |-> cancel_outpoint,
     contract_id |-> contract_id]
PayOfferDoesNotExist(contract_id) ==
    [variant |-> "OfferDoesNotExist", contract_id |-> contract_id]
PayFailed == [variant |-> "Failed"]

\* The transaction that claims, and the one that cancels, the contract.
ClaimOutPoint(contract_id) == [txid |-> [claim |-> contract_id.hash], out_idx |-> 0]
CancelTxId(contract_id) == [cancel |-> contract_id.hash]

\* GatewayPayStateMachine::transitions: the states a pay state machine may move
\* to.  From PayInvoice the contract is fetched and checked and the invoice is
\* paid: the offer does not exist; the contract is cancelled and the cancel is
\* accepted; the invoice is paid and the claim is accepted; or the cancel or
\* the claim is not accepted.  The other states have no transition.
pay_transitions(pay_state) ==
    IF pay_state.state.variant # "PayInvoice" THEN {}
    ELSE LET contract_id == pay_state.state.contract_id
         IN {[common |-> pay_state.common, state |-> next] :
                next \in {PayOfferDoesNotExist(contract_id),
                          PayCanceled(CancelTxId(contract_id), contract_id),
                          PayFailed}
                         \cup {PayPreimage(ClaimOutPoint(contract_id), preimage) :
                                  preimage \in Preimages}}

\* State::transitions of GatewayClientStateMachines offering no transition.
transitions_none(state_machine) == {}

\* State::transitions of GatewayClientStateMachines: the transitions of the
\* pay state, each translated back to the variant Pay.
transitions(state_machine) ==
    {[machine |-> "Pay", common |-> next.common, state |-> next.state] :
        next \in pay_transitions([common |-> state_machine.common,
                                  state |-> state_machine.state])}

\* State::operation_id of GatewayClientStateMachines.
state_operation_id(state_machine) == state_machine.common.operation_id

\* The executor takes a transition of a state machine of the database and
\* replaces the machine by its next state.
execute(state_machine, next) ==
    /\ state_machine \in state_machines
    /\ next \in transitions(state_machine)
    /\ state_machines' = (state_machines \ {state_machine}) \cup {next}
    /\ UNCHANGED <<wallet, operation_log, pay_call, returned, streams,
                   lastCall, args, ret>>

\* GatewayExtPayStates, the updates of a payment.
ExtCreated == [variant |-> "Created"]
ExtPreimage(preimage) == [variant |-> "Preimage", preimage |-> preimage]
ExtSuccess(preimage) == [variant |-> "Success", preimage |-> preimage]
ExtCanceled == [variant |-> "Canceled"]
ExtFail == [variant |-> "Fail"]
ExtOfferDoesNotExist(contract_id) ==
    [variant |-> "OfferDoesNotExist", contract_id |-> contract_id]

\* GatewayError.
GatewayErrorCanceled(cancel_txid) == [variant |-> "Canceled", cancel_txid |-> cancel_txid]
GatewayErrorOfferDoesNotExist(contract_id) ==
    [variant |-> "OfferDoesNotExist", contract_id |-> contract_id]
GatewayErrorFailed == [variant |-> "Failed"]

\* The operation ids: those of the contracts, and one of no payment.
OperationIds == {OperationId(h) : h \in 0..MaxContracts}

\* notifier.subscribe(operation_id): the states of the operation's machine, in
\* the order it was in them, the past ones from the database.
notifier_subscribe(operation_id) ==
    LET machines == {sm \in state_machines : state_operation_id(sm) = operation_id}
    IN IF machines = {} THEN <<>>
       ELSE LET current == CHOOSE sm \in machines : TRUE
            IN IF current.state.variant = "PayInvoice" THEN <<current>>
               ELSE <<GatewayPayStateMachine(operation_id,
                          PayInvoice(ContractId(operation_id.id))),
                      current>>

\* The loop of await_paid_invoice goes round again.
Continue == [kind |-> "Continue"]

\* The loop of await_paid_invoice returning Failed when the notifier stream
\* has ended.
await_paid_invoice_until_end(notified) ==
    IF ~notified.some THEN Err(GatewayErrorFailed)
    ELSE LET state == notified.value.state
         IN IF state.variant = "Preimage"
            THEN Ok(<<state.outpoint, state.preimage>>)
            ELSE IF state.variant = "Canceled"
            THEN Err(GatewayErrorCanceled(state.cancel_outpoint))
            ELSE IF state.variant = "OfferDoesNotExist"
            THEN Err(GatewayErrorOfferDoesNotExist(state.contract_id))
            ELSE IF state.variant = "Failed"
            THEN Err(GatewayErrorFailed)
            ELSE Continue

\* One turn of the loop of await_paid_invoice, given what stream.next()
\* answered: it returns on the states Preimage, Canceled, OfferDoesNotExist
\* and Failed, and goes round again on any other state and on None.
await_paid_invoice(notified) ==
    IF ~notified.some THEN Continue
    ELSE LET state == notified.value.state
         IN IF state.variant = "Preimage"
            THEN Ok(<<state.outpoint, state.preimage>>)
            ELSE IF state.variant = "Canceled"
            THEN Err(GatewayErrorCanceled(state.cancel_outpoint))
            ELSE IF state.variant = "OfferDoesNotExist"
            THEN Err(GatewayErrorOfferDoesNotExist(state.contract_id))
            ELSE IF state.variant = "Failed"
            THEN Err(GatewayErrorFailed)
            ELSE Continue

\* The update stream of the closure of gateway_subscribe_ln_pay, before its
\* first element.  cursor and ended are the notifier stream await_paid_invoice
\* subscribes to: the place of its next state, and whether it has ended.
UpdateStream(operation_id) ==
    [kind |-> "UpdateStream",
     operation_id |-> operation_id,
     pc |-> "start",
     cursor |-> 1,
     ended |-> FALSE,
     events |-> <<>>,
     paid |-> None,
     accepted |-> None]

\* The outcome of an operation whose update stream has ended.
Outcome(outcome) == [kind |-> "Outcome", outcome |-> outcome]

\* The stream yields an update.
yield(stream, update) == [stream EXCEPT !.events = Append(@, update)]

\* The stream ends.
end(stream) == [stream EXCEPT !.pc = "done"]

\* outcome_or_updates: the stream it hands out is the closure's; when that
\* ends, its last update is stored as the outcome of the operation.
outcome_or_updates(i, stream) ==
    /\ streams' = [streams EXCEPT ![i] = stream]
    /\ operation_log' =
           IF stream.pc = "done"
           THEN {IF e.operation_id = stream.operation_id
                 THEN [e EXCEPT !.outcome = Some(stream.events[Len(stream.events)])]
                 ELSE e : e \in operation_log}
           ELSE operation_log

\* gateway_subscribe_ln_pay(operation_id): an error when the log has no such
\* operation, its outcome when it has one, else a new update stream.
gateway_subscribe_ln_pay(operation_id) ==
    /\ Len(streams) < MaxStreams
    /\ lastCall' = "gateway_subscribe_ln_pay"
    /\ args' = operation_id
    /\ LET entries == {e \in operation_log : e.operation_id = operation_id}
       IN IF entries = {}
          THEN /\ ret' = Err("operation not found")
               /\ UNCHANGED streams
          ELSE LET operation == CHOOSE e \in entries : TRUE
               IN /\ ret' = Ok(Len(streams) + 1)
                  /\ streams' = Append(streams,
                         IF operation.outcome.some
                         THEN Outcome(operation.outcome.value)
                         ELSE UpdateStream(operation_id))
    /\ UNCHANGED <<wallet, state_machines, operation_log, pay_call, returned>>

\* The stream is polled for the first time: yield Created.
stream_created(i) ==
    /\ i \in 1..Len(streams)
    /\ streams[i].kind = "UpdateStream"
    /\ streams[i].pc = "start"
    /\ outcome_or_updates(i,
           [yield(streams[i], ExtCreated) EXCEPT !.pc = "await_paid_invoice"])
    /\ UNCHANGED <<wallet, state_machines, pay_call, returned, lastCall, args, ret>>

\* The stream is in await_paid_invoice, which takes the next state from the
\* notifier, or None when the notifier stream ends here or has ended.  When it
\* returns Ok the stream yields Preimage and awaits the output; on Canceled it
\* awaits the cancel transaction; on OfferDoesNotExist and on any other error
\* it yields its last update.
stream_await_paid_invoice(i, ends) ==
    /\ i \in 1..Len(streams)
    /\ streams[i].kind = "UpdateStream"
    /\ streams[i].pc = "await_paid_invoice"
    /\ LET stream == streams[i]
           notified == notifier_subscribe(stream.operation_id)
           is_none == ends \/ stream.ended
       IN /\ is_none \/ stream.cursor <= Len(notified)
          /\ LET result == await_paid_invoice(
                               IF is_none THEN None
                               ELSE Some(notified[stream.cursor]))
                 returns == [stream EXCEPT !.paid = Some(result),
                                           !.ended = is_none]
             IN outcome_or_updates(i,
                    IF result = Continue
                    THEN IF is_none THEN [stream EXCEPT !.ended = TRUE]
                         ELSE [stream EXCEPT !.cursor = @ + 1]
                    ELSE IF result.kind = "Ok"
                    THEN [yield(returns, ExtPreimage(result.value[2]))
                             EXCEPT !.pc = "await_primary_module_output"]
                    ELSE IF result.error.variant = "Canceled"
                    THEN [returns EXCEPT !.pc = "await_tx_accepted"]
                    ELSE IF result.error.variant = "OfferDoesNotExist"
                    THEN end(yield(returns,
                             ExtOfferDoesNotExist(result.error.contract_id)))
                    ELSE end(yield(returns, ExtFail)))
    /\ UNCHANGED <<wallet, state_machines, pay_call, returned, lastCall, args, ret>>

\* The stream without the return after Success.
stream_await_primary_module_output_no_return(i, is_ok) ==
    /\ i \in 1..Len(streams)
    /\ streams[i].kind = "UpdateStream"
    /\ streams[i].pc = "await_primary_module_output"
    /\ LET stream == [streams[i] EXCEPT !.accepted = Some(is_ok)]
           preimage == stream.paid.value.value[2]
       IN outcome_or_updates(i,
              IF is_ok THEN end(yield(yield(stream, ExtSuccess(preimage)), ExtFail))
              ELSE end(yield(stream, ExtFail)))
    /\ UNCHANGED <<wallet, state_machines, pay_call, returned, lastCall, args, ret>>

\* await_primary_module_output(operation_id, outpoint) has answered: Success
\* with the preimage and return, or Fail.
stream_await_primary_module_output(i, is_ok) ==
    /\ i \in 1..Len(streams)
    /\ streams[i].kind = "UpdateStream"
    /\ streams[i].pc = "await_primary_module_output"
    /\ LET stream == [streams[i] EXCEPT !.accepted = Some(is_ok)]
           preimage == stream.paid.value.value[2]
       IN outcome_or_updates(i,
              IF is_ok THEN end(yield(stream, ExtSuccess(preimage)))
              ELSE end(yield(stream, ExtFail)))
    /\ UNCHANGED <<wallet, state_machines, pay_call, returned, lastCall, args, ret>>

\* The stream yielding Canceled whatever await_tx_accepted answers.
stream_await_tx_accepted_unchecked(i, is_ok) ==
    /\ i \in 1..Len(streams)
    /\ streams[i].kind = "UpdateStream"
    /\ streams[i].pc = "await_tx_accepted"
    /\ LET stream == [streams[i] EXCEPT !.accepted = Some(is_ok)]
       IN outcome_or_updates(i, end(yield(stream, ExtCanceled)))
    /\ UNCHANGED <<wallet, state_machines, pay_call, returned, lastCall, args, ret>>

\* await_tx_accepted(cancel_txid) has answered: Canceled and return, or Fail.
stream_await_tx_accepted(i, is_ok) ==
    /\ i \in 1..Len(streams)
    /\ streams[i].kind = "UpdateStream"
    /\ streams[i].pc = "await_tx_accepted"
    /\ LET stream == [streams[i] EXCEPT !.accepted = Some(is_ok)]
       IN outcome_or_updates(i,
              IF is_ok THEN end(yield(stream, ExtCanceled))
              ELSE end(yield(stream, ExtFail)))
    /\ UNCHANGED <<wallet, state_machines, pay_call, returned, lastCall, args, ret>>

\* A payment of each of the contracts has been started and none has moved.
started(contracts) ==
    /\ state_machines =
           {GatewayPayStateMachine(pay_operation_id(c), PayInvoice(c)) :
               c \in contracts}
    /\ operation_log =
           {OperationLogEntry(pay_operation_id(c), "ln", GatewayMetaPay) :
               c \in contracts}
    /\ returned =
           {[contract_id |-> c, operation_id |-> pay_operation_id(c),
             repeated |-> FALSE] : c \in contracts}
    /\ pay_call = None
    /\ streams = <<>>

\* The payments of SpecGateway.
InitGateway ==
    /\ new
    /\ finalty_delay = MaxDelay
    /\ transactions = <<>>
    /\ utxos = <<>>
    /\ started({ContractId(h) : h \in 1..MaxPayments})

\* A step of the machine of an operation.
Execute(id) ==
    \E state_machine \in state_machines :
        /\ state_operation_id(state_machine) = id
        /\ \E next \in transitions(state_machine) : execute(state_machine, next)

NextGateway ==
    \/ \E id \in OperationIds : Execute(id)
    \/ \E h \in 0..MaxPayments : gateway_subscribe_ln_pay(OperationId(h))
    \/ \E i \in 1..MaxStreams : stream_created(i)
    \/ \E i \in 1..MaxStreams, ends \in BOOLEAN : stream_await_paid_invoice(i, ends)
    \/ \E i \in 1..MaxStreams, is_ok \in BOOLEAN :
           stream_await_primary_module_output(i, is_ok)
    \/ \E i \in 1..MaxStreams, is_ok \in BOOLEAN : stream_await_tx_accepted(i, is_ok)
    \/ restart

\* The pay state machines and the update streams of started payments.
SpecGateway == InitGateway /\ [][NextGateway]_vars

\* The payments of SpecMachines: one of every contract.
InitMachines ==
    /\ new
    /\ finalty_delay = MaxDelay
    /\ transactions = <<>>
    /\ utxos = <<>>
    /\ started(ContractIds)

NextMachines ==
    \/ \E id \in OperationIds : Execute(id)
    \/ restart

\* The pay state machines under an executor that is fair to each of them: a
\* transition that stays possible is taken.
SpecMachines ==
    /\ InitMachines
    /\ [][NextMachines]_vars
    /\ \A id \in OperationIds : WF_vars(Execute(id))

(***************************************************************************)
(* The calls that hold the wallet by shared reference, step by step.       *)
(***************************************************************************)
\* balance(&self) is entered: the height map and the unspent outputs are read
\* from the database, and the wallet stays borrowed until the call returns.
balance_enter(db_ok) ==
    /\ borrowed = None
    /\ lastCall' = "balance"
    /\ args' = <<db_ok>>
    /\ build' = None
    /\ peer_build' = None
    /\ IF db_ok
       THEN /\ ret' = Pending
            /\ borrowed' = Some([call |-> "balance",
                                 entry_height |-> consensus_height,
                                 height_map |-> height_map,
                                 utxos |-> utxos,
                                 heights_read |-> <<>>,
                                 sats |-> 0])
       ELSE /\ ret' = Err("BdkError")
            /\ UNCHANGED borrowed
    /\ UNCHANGED <<consensus_height, finalty_delay, last_proposal,
                   consensus_feerate, database, proposals, highest_proposed,
                   gateway>>

\* The filter closure of balance() takes the next unspent output and compares
\* its height with self.consensus_height as it is now.
balance_filter_next ==
    /\ borrowed # None
    /\ borrowed.value.call = "balance"
    /\ LET call == borrowed.value
           index == Len(call.heights_read) + 1
       IN /\ index <= Len(call.utxos)
          /\ LET utxo == call.utxos[index]
                 kept == balance_filter(call.height_map, consensus_height, <<utxo>>)
             IN borrowed' = Some([call EXCEPT
                    !.heights_read = Append(@, consensus_height),
                    !.sats = @ + SumValues(kept)])
    /\ UNCHANGED <<consensus_height, finalty_delay, last_proposal,
                   consensus_feerate, database, proposals, highest_proposed,
                   lastCall, args, ret, build, peer_build, gateway>>

\* balance() returns the sum.
balance_return ==
    /\ borrowed # None
    /\ borrowed.value.call = "balance"
    /\ Len(borrowed.value.heights_read) = Len(borrowed.value.utxos)
    /\ ret' = Ok(borrowed.value.sats)
    /\ build' = borrowed
    /\ borrowed' = None
    /\ UNCHANGED <<consensus_height, finalty_delay, last_proposal,
                   consensus_feerate, database, proposals, highest_proposed,
                   lastCall, args, peer_build, gateway>>

\* create_pegout_tx(&self, recipient, amt) is entered: coin_selection() makes
\* the selector from the height map and the consensus height, and the wallet
\* stays borrowed while the transaction is built and signed.
create_pegout_tx_enter(recipient, amt, db_ok) ==
    /\ borrowed = None
    /\ lastCall' = "create_pegout_tx"
    /\ args' = <<recipient, amt>>
    /\ build' = None
    /\ peer_build' = None
    /\ IF db_ok
       THEN /\ ret' = Pending
            /\ borrowed' = Some([call |-> "create_pegout_tx",
                                 entry_height |-> consensus_height,
                                 builder |-> tx_builder(recipient, amt)])
       ELSE /\ ret' = Err("BdkError")
            /\ UNCHANGED borrowed
    /\ UNCHANGED <<consensus_height, finalty_delay, last_proposal,
                   consensus_feerate, database, proposals, highest_proposed,
                   gateway>>

\* The builder finishes with the selector made at entry, and
\* create_pegout_tx returns.
create_pegout_tx_return ==
    /\ borrowed # None
    /\ borrowed.value.call = "create_pegout_tx"
    /\ \E built \in finish(borrowed.value.builder) :
          /\ build' = Some(built)
          /\ \E sign_ok \in BOOLEAN :
             ret' = IF built.result.kind # "Ok" THEN built.result
                    ELSE IF built.result.value.sent # args[2] THEN Panic
                    ELSE IF ~sign_ok THEN Err("SignError")
                    ELSE Ok(built.result.value.tx)
    /\ borrowed' = None
    /\ UNCHANGED <<consensus_height, finalty_delay, last_proposal,
                   consensus_feerate, database, proposals, highest_proposed,
                   lastCall, args, peer_build, gateway>>

NextSnapshot ==
    \/ \E wc \in HonestProposals : process_consensus_proposals(<<wc>>)
    \/ \E db_ok \in BOOLEAN : balance_enter(db_ok)
    \/ balance_filter_next
    \/ balance_return
    \/ \E amt \in 1..MaxAmount, db_ok \in BOOLEAN :
           create_pegout_tx_enter(RecipientScript, amt, db_ok)
    \/ create_pegout_tx_return

\* The aggregation rounds and the calls of balance and create_pegout_tx, each
\* call in the steps between which another task could run.
SpecSnapshot == InitWallet /\ [][NextSnapshot]_vars

(***************************************************************************)
(* The aggregation rounds.                                                 *)
(***************************************************************************)
Processed == lastCall = "process_consensus_proposals"

\* x stands at index floor(n/2) of the ascending order of the integers s.
IsUpperMedianInt(x, s) ==
    /\ \E i \in 1..Len(s) : s[i] = x
    /\ Cardinality({i \in 1..Len(s) : s[i] < x}) <= Len(s) \div 2
    /\ Cardinality({i \in 1..Len(s) : s[i] <= x}) > Len(s) \div 2

BatchHeights(batch) == [i \in 1..Len(batch) |-> batch[i].block_height]

\* C1: consensus_height never decreases, whatever batch a round processes.
C1_HeightMonotone == [][consensus_height' >= consensus_height]_vars

\* A round whose every proposal lies below the consensus height has run.
C1_Witness ==
    /\ Processed
    /\ args # <<>>
    /\ \A i \in 1..Len(args) : args[i].block_height < consensus_height

\* C2: a round over a non-empty batch commits the element at index floor(n/2)
\* of the sorted heights when it is at least the prior consensus height, and
\* keeps the prior consensus height otherwise.
C2_HeightCommitRule ==
    [][(lastCall' = "process_consensus_proposals" /\ args' # <<>>) =>
        \E candidate \in Heights :
            /\ IsUpperMedianInt(candidate, BatchHeights(args'))
            /\ consensus_height' =
                   IF candidate >= consensus_height THEN candidate
                   ELSE consensus_height]_vars

\* A round over two different heights has committed the larger one.
C2_Witness ==
    /\ Processed
    /\ Len(args) = 2
    /\ args[1].block_height > args[2].block_height
    /\ consensus_height = args[1].block_height

\* A fee rate that is finite, normal and strictly positive.
SaneFeeRate(f) == f.cls = "normal" /\ f.v > 0

\* C3: a round that changes consensus_feerate leaves it finite, normal and
\* strictly positive.
C3_FeeSanity ==
    [][consensus_feerate' # consensus_feerate => SaneFeeRate(consensus_feerate')]_vars

\* The proposals of a batch whose fee rate is finite, normal and positive.
SaneFees(batch) == {i \in 1..Len(batch) : SaneFeeRate(batch[i].fee_rate)}

\* f stands at index floor(m/2) of the ascending order of the m fee rates of
\* the batch that are finite, normal and positive.
IsUpperMedianSaneFee(f, batch) ==
    LET m == Cardinality(SaneFees(batch)) IN
    /\ \E i \in SaneFees(batch) : batch[i].fee_rate = f
    /\ Cardinality({i \in SaneFees(batch) : batch[i].fee_rate.v < f.v}) <= m \div 2
    /\ Cardinality({i \in SaneFees(batch) : batch[i].fee_rate.v <= f.v}) > m \div 2

\* C4: when a fee rate of the batch is finite, normal and positive, the round
\* sets consensus_feerate to the element at index floor(m/2) of the m such fee
\* rates in ascending order.
C4_FeeMedian ==
    [][(lastCall' = "process_consensus_proposals" /\ SaneFees(args') # {}) =>
        IsUpperMedianSaneFee(consensus_feerate', args')]_vars

\* C5: a proposal consensus_proposal returns is at least as high as every
\* proposal it returned before, and the call leaves last_proposal at the height
\* it proposes.
C5_ProposalRatchet ==
    [][(lastCall' = "consensus_proposal" /\ ret'.kind = "Ok") =>
        /\ ret'.value.block_height >= highest_proposed
        /\ last_proposal' = ret'.value.block_height]_vars

(***************************************************************************)
(* The balance and the peg-out.                                            *)
(***************************************************************************)
\* The unspent output at index i of list_unspent is funded by a transaction
\* the wallet lists as confirmed at a height of at most consensus_height.
Final(i) ==
    \E j \in 1..Len(transactions) :
        /\ transactions[j].txid = utxos[i].outpoint.txid
        /\ transactions[j].height # None
        /\ transactions[j].height.value <= consensus_height

RECURSIVE TotalValue(_)
TotalValue(S) ==
    IF S = {} THEN 0
    ELSE LET i == CHOOSE j \in S : TRUE
         IN utxos[i].txout.value + TotalValue(S \ {i})

\* C6: balance() returns the sum of the values of the unspent outputs whose
\* funding transaction is confirmed at a height <= consensus_height; the
\* others contribute nothing.
C6_Balance ==
    (lastCall = "balance" /\ ret.kind = "Ok") =>
        ret.value = TotalValue({i \in 1..Len(utxos) : Final(i)})

\* balance() has counted an output confirmed at the consensus height and left
\* out one confirmed above it.
C6_Witness ==
    /\ lastCall = "balance"
    /\ ret.kind = "Ok"
    /\ consensus_height > 0
    /\ \E i, j \in 1..Len(utxos) :
        /\ transactions[i].height = Some(consensus_height)
        /\ transactions[j].height # None
        /\ transactions[j].height.value > consensus_height
        /\ ret.value = utxos[i].txout.value

\* C7: the optional UTXOs handed to the inner selector are the offered ones
\* that are funded by a transaction confirmed at a height <= consensus_height:
\* none other, and all of those.
C7_Admissible ==
    (lastCall = "create_pegout_tx" /\ build # None) =>
        LET inner == build.value.inner_optional IN
        /\ \A k \in 1..Len(inner) :
               \E i \in 1..Len(utxos) : utxos[i] = inner[k] /\ Final(i)
        /\ \A i \in 1..Len(utxos) :
               Final(i) => \E k \in 1..Len(inner) : inner[k] = utxos[i]

\* A build has offered two outputs and handed one, confirmed at the consensus
\* height, to the inner selector.
C7_Witness ==
    /\ lastCall = "create_pegout_tx"
    /\ build # None
    /\ Len(utxos) = 2
    /\ Len(build.value.inner_optional) = 1
    /\ \E i \in 1..Len(utxos) :
        /\ utxos[i] = build.value.inner_optional[1]
        /\ transactions[i].height = Some(consensus_height)

\* C8: every peg-out is built with the wallet's consensus_feerate.
C8_ConsensusFeeRateUsed ==
    (lastCall = "create_pegout_tx" /\ ret.kind = "Ok") =>
        build.value.fee_rate = consensus_feerate

\* C9: create_pegout_tx returns a transaction only when meta.sent equals the
\* requested amount; a build whose meta.sent differs panics, whatever the
\* signer would do.
C9_ExactSend ==
    (lastCall = "create_pegout_tx" /\ build # None
        /\ build.value.result.kind = "Ok") =>
        /\ ret.kind = "Ok" => build.value.result.value.sent = args[2]
        /\ build.value.result.value.sent # args[2] => ret = Panic

\* create_pegout_tx has returned a transaction with a change output.
C9_Witness ==
    /\ lastCall = "create_pegout_tx"
    /\ ret.kind = "Ok"
    /\ build.value.result.value.sent = args[2]
    /\ Len(ret.value.output) = 2

\* C10: two wallets with the same database, consensus height and consensus fee
\* rate, asked for the same peg-out, build the same unsigned transaction.
C10_Deterministic ==
    (lastCall = "create_pegout_tx" /\ build # None /\ peer_build # None) =>
        peer_build.value =
            IF build.value.result.kind = "Ok"
            THEN Ok(build.value.result.value.tx)
            ELSE build.value.result

(***************************************************************************)
(* Starting a payment.                                                     *)
(***************************************************************************)
\* The database holds a state machine of the operation.
HasStateMachine(operation_id) ==
    \E sm \in state_machines : sm.common.operation_id = operation_id

\* The database holds an entry "Pay" of the operation.
HasLogEntry(operation_id) ==
    \E e \in operation_log :
        e.operation_id = operation_id /\ e.meta = GatewayMetaPay

\* C11: the state machine and the entry "Pay" of the operation log of a payment
\* are committed together: at every moment, whatever closure error or failed
\* commit came before, the database holds both or neither, and an operation id
\* was returned only for a payment of which it holds both.
C11_StartPaymentAtomic ==
    /\ \A sm \in state_machines : HasLogEntry(sm.common.operation_id)
    /\ \A e \in operation_log : HasStateMachine(e.operation_id)
    /\ \A r \in returned :
           HasStateMachine(r.operation_id) /\ HasLogEntry(r.operation_id)
    /\ (lastCall = "gateway_pay_bolt11_invoice" /\ ret.kind = "Ok") =>
           HasStateMachine(ret.value) /\ HasLogEntry(ret.value)

\* The commit failed on every attempt, and nothing of the payment is in the
\* database, which holds an earlier payment.
C11_Witness ==
    /\ lastCall = "gateway_pay_bolt11_invoice"
    /\ ret = Err("Commit to DB failed")
    /\ ~HasStateMachine(pay_operation_id(args))
    /\ ~HasLogEntry(pay_operation_id(args))
    /\ state_machines # {}

\* C12: the operation id of a payment depends on the contract id alone: two
\* calls return the same operation id exactly when they were given the same
\* contract id, on any attempt and before or after a restart, and the state
\* machine stored for the contract carries that id in common.operation_id.
C12_OperationIdOfContract ==
    /\ \A r, q \in returned :
           (r.contract_id = q.contract_id) <=> (r.operation_id = q.operation_id)
    /\ \A r \in returned :
           GatewayPayStateMachine(r.operation_id, PayInvoice(r.contract_id))
               \in state_machines

\* A payment was started a second time for the same contract, and payments of
\* every contract were started.
C12_Witness ==
    /\ \E r \in returned : r.repeated
    /\ \A c \in ContractIds : \E r \in returned : r.contract_id = c

(***************************************************************************)
(* The update streams and the pay state machines.                          *)
(***************************************************************************)
\* The update streams handed out, by index.
UpdateStreams == {i \in 1..Len(streams) : streams[i].kind = "UpdateStream"}

\* The updates that end a payment.
IsTerminalUpdate(update) ==
    update.variant \in {"Success", "Canceled", "OfferDoesNotExist", "Fail"}

\* C13: every update stream of gateway_subscribe_ln_pay yields Created first;
\* a terminal update (Success, Canceled, OfferDoesNotExist, Fail) is the last
\* element, and a stream that has ended has yielded exactly one.
C13_StreamShape ==
    \A i \in UpdateStreams :
        LET events == streams[i].events
        IN /\ events # <<>> => events[1] = ExtCreated
           /\ \A k \in 1..Len(events) :
                  /\ IsTerminalUpdate(events[k]) => k = Len(events)
                  /\ events[k] = ExtCreated => k = 1
           /\ streams[i].pc = "done" <=>
                  (events # <<>> /\ IsTerminalUpdate(events[Len(events)]))

\* A stream has ended after Created, Preimage and Success.
C13_Witness ==
    \E i \in UpdateStreams :
        /\ streams[i].pc = "done"
        /\ Len(streams[i].events) = 3
        /\ streams[i].events[3].variant = "Success"

\* The sequences of updates of a payment.
IsSuccessSequence(events) ==
    /\ Len(events) = 3
    /\ events[1] = ExtCreated
    /\ events[2].variant = "Preimage"
    /\ events[3] = ExtSuccess(events[2].preimage)

IsFailAfterPreimage(events) ==
    /\ Len(events) = 3
    /\ events[1] = ExtCreated
    /\ events[2].variant = "Preimage"
    /\ events[3] = ExtFail

IsRefusalSequence(events) ==
    /\ Len(events) = 2
    /\ events[1] = ExtCreated
    /\ \/ events[2] = ExtCanceled
       \/ events[2].variant = "OfferDoesNotExist"
       \/ events[2] = ExtFail

\* Canceled is yielded only when the cancel transaction was accepted, Fail
\* when it was not.
CanceledOnlyWhenAccepted(stream) ==
    (stream.pc = "done" /\ stream.paid.value.kind = "Err"
        /\ stream.paid.value.error.variant = "Canceled") =>
        stream.events[2] = (IF stream.accepted = Some(TRUE) THEN ExtCanceled
                            ELSE ExtFail)

\* C14: the updates of a stream that has ended are Created, Preimage, Success
\* with one preimage, or Created, Canceled, or Created, OfferDoesNotExist, or
\* Created, Fail, and no other sequence; Canceled only when the cancel
\* transaction was accepted.
C14_PublicLifecycle ==
    \A i \in UpdateStreams :
        streams[i].pc = "done" =>
            /\ IsSuccessSequence(streams[i].events)
                   \/ IsRefusalSequence(streams[i].events)
            /\ CanceledOnlyWhenAccepted(streams[i])

\* C14, amended: as C14, with a fifth sequence, Created, Preimage, Fail, of a
\* payment whose primary module output was not accepted.
C14_PublicLifecycleAmended ==
    \A i \in UpdateStreams :
        streams[i].pc = "done" =>
            /\ \/ IsSuccessSequence(streams[i].events)
               \/ IsRefusalSequence(streams[i].events)
               \/ /\ IsFailAfterPreimage(streams[i].events)
                  /\ streams[i].accepted = Some(FALSE)
            /\ IsSuccessSequence(streams[i].events) =>
                   streams[i].accepted = Some(TRUE)
            /\ CanceledOnlyWhenAccepted(streams[i])

\* A stream has ended after Created, Preimage and Fail.
C14_Witness ==
    \E i \in UpdateStreams :
        /\ streams[i].pc = "done"
        /\ IsFailAfterPreimage(streams[i].events)

\* The state machine is in a terminal state.
IsTerminalState(state_machine) ==
    state_machine.state.variant \in
        {"Preimage", "Canceled", "OfferDoesNotExist", "Failed"}

\* C15: under a fair executor the state machine of every operation reaches
\* Preimage, Canceled, OfferDoesNotExist or Failed, and a state machine in one
\* of these states stays in the database as it is.
C15_Finality ==
    /\ \A id \in OperationIds :
           <>(\A sm \in state_machines :
                  state_operation_id(sm) = id => IsTerminalState(sm))
    /\ [][\A sm \in state_machines : IsTerminalState(sm) => sm \in state_machines']_vars

\* Every state machine is in a terminal state, each in a different one.
C15_Witness ==
    /\ \A sm \in state_machines : IsTerminalState(sm)
    /\ \A sm, other \in state_machines :
           sm # other => sm.state.variant # other.state.variant

(***************************************************************************)
(* Rounds without a valid proposal, the wallet's proposal, the selector.   *)
(***************************************************************************)
\* C16: a round with an empty batch returns normally and leaves
\* consensus_height, consensus_feerate and last_proposal as they were.
C16_EmptyBatchNoOp ==
    [][(lastCall' = "process_consensus_proposals" /\ args' = <<>>) =>
           /\ ret' = Unit
           /\ UNCHANGED <<consensus_height, consensus_feerate, last_proposal>>]_vars

\* A round with an empty batch has returned, after rounds that raised the
\* consensus height and changed the fee rate.
C16_Witness ==
    /\ Processed
    /\ args = <<>>
    /\ ret = Unit
    /\ consensus_height > 0
    /\ consensus_feerate # FeeRateDefault

\* C17: a round with a batch that is not empty and holds no fee rate that is
\* finite, normal and positive returns normally and leaves consensus_feerate
\* as it was.
C17_AllInvalidFees ==
    [][(lastCall' = "process_consensus_proposals" /\ args' # <<>>
            /\ SaneFees(args') = {}) =>
           /\ ret' = Unit
           /\ consensus_feerate' = consensus_feerate]_vars

\* C18: the block height of every proposal consensus_proposal returns is at
\* most the network height of that call less the finality delay, the
\* difference being 0 when the network height is below the delay.
C18_FinalityBound ==
    (lastCall = "consensus_proposal" /\ ret.kind = "Ok") =>
        LET network_height == args[1].value
            target == IF network_height >= finalty_delay
                      THEN network_height - finalty_delay
                      ELSE 0
        IN /\ ret.value.block_height >= 0
           /\ ret.value.block_height <= target

\* A proposal was returned at a network height below the finality delay.
C18_Witness ==
    /\ lastCall = "consensus_proposal"
    /\ ret.kind = "Ok"
    /\ args[1].value < finalty_delay
    /\ ret.value.block_height = 0

\* C19: coin_select called with required_utxos that is not empty panics, and
\* the inner selector is not called.
C19_RequiredRejected ==
    (lastCall = "coin_select" /\ args[1] # <<>>) =>
        /\ ret = Panic
        /\ ~build.value.delegated

\* coin_select was called with a required output that is final and covers the
\* amount, and panicked.
C19_Witness ==
    /\ lastCall = "coin_select"
    /\ args[1] # <<>>
    /\ ret = Panic
    /\ balance_filter(height_map, consensus_height, args[1]) = args[1]
    /\ args[1][1].txout.value > args[2]

(***************************************************************************)
(* The snapshot of a call.                                                 *)
(***************************************************************************)
\* C20: while balance() or create_pegout_tx runs, the consensus height is the
\* one of the moment the call was entered: every unspent output is compared
\* with that one height, the selector carries it, and balance() returns the
\* sum of the outputs final at it.  No aggregation round takes effect between
\* the entry and the return of a call.
C20_Snapshot ==
    /\ borrowed # None =>
           /\ consensus_height = borrowed.value.entry_height
           /\ borrowed.value.call = "balance" =>
                  \A k \in 1..Len(borrowed.value.heights_read) :
                      borrowed.value.heights_read[k] = borrowed.value.entry_height
           /\ borrowed.value.call = "create_pegout_tx" =>
                  borrowed.value.builder.coin_selection = coin_selection
    /\ (lastCall = "balance" /\ build # None) =>
           ret = Ok(SumValues(balance_filter(build.value.height_map,
                                             build.value.entry_height,
                                             build.value.utxos)))

\* balance() has compared two unspent outputs with the consensus height, which
\* earlier rounds had raised and later rounds could raise again.
C20_Witness ==
    /\ borrowed # None
    /\ borrowed.value.call = "balance"
    /\ Len(borrowed.value.heights_read) >= 2
    /\ consensus_height > 0
    /\ consensus_height < MaxHeight

(***************************************************************************)
(* The two halves of a round.                                              *)
(***************************************************************************)
\* C21: a round over a non-empty batch returns normally, sets consensus_height
\* by the height rule whether or not a fee rate of the batch survives the
\* filter, sets consensus_feerate by the fee rule whether the height median
\* was committed or rejected as a rewind, and leaves last_proposal alone.
C21_RoundHalvesIndependent ==
    [][(lastCall' = "process_consensus_proposals" /\ args' # <<>>) =>
        /\ ret' = Unit
        /\ \E candidate \in Heights :
               /\ IsUpperMedianInt(candidate, BatchHeights(args'))
               /\ consensus_height' =
                      IF candidate >= consensus_height THEN candidate
                      ELSE consensus_height
        /\ IF SaneFees(args') = {}
           THEN consensus_feerate' = consensus_feerate
           ELSE IsUpperMedianSaneFee(consensus_feerate', args')
        /\ last_proposal' = last_proposal]_vars

\* A round whose every height lies below the consensus height, and whose fee
\* rates are all the highest one, has left that fee rate in consensus_feerate.
C21_Witness ==
    /\ Processed
    /\ args # <<>>
    /\ \A i \in 1..Len(args) :
           /\ args[i].block_height < consensus_height
           /\ args[i].fee_rate = Normal(MaxFee)
    /\ consensus_feerate = Normal(MaxFee)
    /\ ret = Unit

(***************************************************************************)
(* A minority of the height proposals.                                     *)
(***************************************************************************)
\* The sets of proposals of a batch that may be the honest ones: strictly
\* more than half of it.
Majorities(batch) ==
    {H \in SUBSET (1..Len(batch)) : 2 * Cardinality(H) > Len(batch)}

\* The smallest and the largest height of the proposals H of a batch.
LowestOf(batch, H) ==
    CHOOSE x \in {batch[i].block_height : i \in H} :
        \A i \in H : x <= batch[i].block_height
HighestOf(batch, H) ==
    CHOOSE x \in {batch[i].block_height : i \in H} :
        \A i \in H : x >= batch[i].block_height

\* C22: whichever majority of a non-empty batch is honest, the height the
\* round commits lies between the smallest and the largest honest height,
\* whatever the other proposals are: a round that changes consensus_height, or
\* starts at a consensus height no honest proposal is below, leaves it within
\* the honest range, and no round leaves it above both the prior consensus
\* height and the highest honest proposal.
C22_MinorityCannotMove ==
    [][(lastCall' = "process_consensus_proposals" /\ args' # <<>>) =>
        \A H \in Majorities(args') :
            LET lowest == LowestOf(args', H)
                highest == HighestOf(args', H)
            IN /\ (consensus_height' # consensus_height \/ consensus_height <= lowest) =>
                      (lowest <= consensus_height' /\ consensus_height' <= highest)
               /\ consensus_height' <= highest \/ consensus_height' <= consensus_height]_vars

\* A round of three proposals has committed the height of two of them, the
\* third proposing a greater height.
C22_Witness ==
    /\ Processed
    /\ Len(args) = 3
    /\ \E i \in 1..3 :
           /\ args[i].block_height > consensus_height
           /\ \A j \in (1..3) \ {i} : args[j].block_height = consensus_height
    /\ consensus_height > 0

(***************************************************************************)
(* What makes await_paid_invoice return.                                   *)
(***************************************************************************)
\* What await_paid_invoice is to return for a pay state.
PaidResultOf(state) ==
    IF state.variant = "Preimage" THEN Ok(<<state.outpoint, state.preimage>>)
    ELSE IF state.variant = "Canceled"
    THEN Err([variant |-> "Canceled", cancel_txid |-> state.cancel_outpoint])
    ELSE IF state.variant = "OfferDoesNotExist"
    THEN Err([variant |-> "OfferDoesNotExist", contract_id |-> state.contract_id])
    ELSE Err([variant |-> "Failed"])

\* The state machines of the database that belong to the operation of a stream.
MachinesOf(stream) ==
    {sm \in state_machines : state_operation_id(sm) = stream.operation_id}

\* C23: await_paid_invoice has returned in an update stream only when the
\* notifier delivered the terminal state of the operation's machine, and then
\* with the result of that state (Preimage -> Ok of its outpoint and preimage,
\* Canceled -> Err(Canceled) of its transaction, OfferDoesNotExist -> Err of
\* its contract, Failed -> Err(Failed)); a machine still in PayInvoice and a
\* notifier stream that has ended leave it not returned; and a stream has
\* yielded Success, Canceled, OfferDoesNotExist or Fail only after
\* await_paid_invoice returned.
C23_ReturnsOnTerminalOnly ==
    \A i \in UpdateStreams :
        LET stream == streams[i]
            events == stream.events
        IN /\ stream.paid # None =>
                  /\ ~stream.ended
                  /\ \E sm \in MachinesOf(stream) :
                         /\ IsTerminalState(sm)
                         /\ stream.paid.value = PaidResultOf(sm.state)
           /\ (\E sm \in MachinesOf(stream) : sm.state.variant = "PayInvoice") =>
                  stream.paid = None
           /\ stream.ended => stream.paid = None
           /\ stream.paid = None =>
                  \A k \in 1..Len(events) : ~IsTerminalUpdate(events[k])

\* The notifier stream of an update stream has ended after the PayInvoice
\* state; the machine has since reached Preimage, and the update stream has
\* yielded Created alone and is still in await_paid_invoice.
C23_Witness ==
    \E i \in UpdateStreams :
        /\ streams[i].ended
        /\ streams[i].cursor = 2
        /\ streams[i].pc = "await_paid_invoice"
        /\ streams[i].events = <<ExtCreated>>
        /\ \E sm \in MachinesOf(streams[i]) : sm.state.variant = "Preimage"

\* await_paid_invoice has gone round on the PayInvoice state and returned on
\* the Canceled state that came next.
C23_ReturnedAfterPayInvoice ==
    \E i \in UpdateStreams :
        /\ streams[i].cursor = 2
        /\ streams[i].paid # None
        /\ streams[i].paid.value.kind = "Err"
        /\ streams[i].paid.value.error.variant = "Canceled"

=============================================================================
